---- MODULE Spec2Model ----
(* A model of the skip list of src/src/main.rs: an ordered set of i32     *)
(* values kept in a multi-level linked structure of heap nodes.  Nodes are *)
(* heap cells addressed by a pointer; the raw pointers of the source are   *)
(* node addresses 0, 1, 2, ... and Option::None is the value None.         *)
EXTENDS Integers, Sequences, FiniteSets, TLC

\* ---------------------------------------------------------------- bounds
\* values offered to insert are -2 .. MaxVal: the head's dummy value -1, a
\* value below it and the values from 0 up
MaxVal == 0
\* at most MaxNodes real nodes are allocated
MaxNodes == 3
\* short runs of successful random draws are 0 .. MaxRun
MaxRun == 0

\* ------------------------------------------------------ program constants
MAX_LEVEL == 16

None == -1

Levels == 0 .. (MAX_LEVEL - 1)

Values == -2 .. MaxVal

\* keys offered to search: every insertable value and one beyond each end
Keys == -3 .. (MaxVal + 1)

\* The random stream seen by one call of random_level is characterised by
\* the number of leading draws that are < P: a short run, or a run that
\* outlasts every level (the draws "always succeed").
Runs == (0 .. MaxRun) \cup {MAX_LEVEL + 1}

\* ------------------------------------------------------------------ state
VARIABLES
  heap,       \* address -> Node, for every node allocated with Box::new
  head,       \* SkipList.head
  level,      \* SkipList.level
  pc,         \* "live", "aborted" (allocation failed), "panicked", "dropped"
  op,         \* the last call: its name, insert's argument, its outcome
  inserted,   \* the values for which insert was called and returned
  nodeLevel,  \* address -> the _level argument its Node::new was given
  freed,      \* address -> number of times drop released it
  uaf         \* drop read a node after releasing it

vars == <<heap, head, level, pc, op, inserted, nodeLevel, freed, uaf>>

\* Node::new clearing only the first lvl slots, the others keeping a stale
\* address
NodeNew_partial(value, lvl) ==
  [value |-> value, next |-> [i \in Levels |-> IF i < lvl THEN None ELSE 0]]

\* Node::new filling every slot with the address 0 instead of None
NodeNew_zeroed(value, lvl) == [value |-> value, next |-> [i \in Levels |-> 0]]

\* Node::new(value, _level): every next slot is None, _level is ignored
NodeNew(value, lvl) == [value |-> value, next |-> [i \in Levels |-> None]]

\* the inner loop moving right also over a node of value v
RECURSIVE Advance_le(_, _, _)
Advance_le(current, i, v) ==
  IF current = None THEN current
  ELSE IF heap[current].next[i] # None /\ heap[heap[current].next[i]].value <= v
       THEN Advance_le(heap[current].next[i], i, v)
       ELSE current

\* the inner `while let` of insert and search at level i: move right while
\* the next node exists and its value is less than v
RECURSIVE Advance(_, _, _)
Advance(current, i, v) ==
  IF current = None THEN current
  ELSE IF heap[current].next[i] # None /\ heap[heap[current].next[i]].value < v
       THEN Advance(heap[current].next[i], i, v)
       ELSE current

\* FindUpdate with the cursor recorded before the level is walked
RECURSIVE FindUpdate_early(_, _, _, _)
FindUpdate_early(current, i, v, update) ==
  LET c == Advance(current, i, v)
      u == [update EXCEPT ![i] = current]
  IN  IF i = 0 THEN u ELSE FindUpdate_early(c, i - 1, v, u)

\* the descending `for i in (0..=self.level).rev()` of insert, recording the
\* cursor of each level in update
RECURSIVE FindUpdate(_, _, _, _)
FindUpdate(current, i, v, update) ==
  LET c == Advance(current, i, v)
      u == [update EXCEPT ![i] = c]
  IN  IF i = 0 THEN u ELSE FindUpdate(c, i - 1, v, u)

\* the descending loop of search stopping above level 0
RECURSIVE FindCursor_skip0(_, _, _)
FindCursor_skip0(current, i, v) ==
  IF i = 0 THEN current
  ELSE LET c == Advance(current, i, v)
       IN  IF i = 1 THEN c ELSE FindCursor_skip0(c, i - 1, v)

\* the descending loop of search: only the cursor is kept
RECURSIVE FindCursor(_, _, _)
FindCursor(current, i, v) ==
  LET c == Advance(current, i, v)
  IN  IF i = 0 THEN c ELSE FindCursor(c, i - 1, v)

\* search comparing the cursor's own value instead of its successor's
search_cursor(v) ==
  LET current == FindCursor(head, level, v)
  IN  IF current # None THEN heap[current].value = v ELSE FALSE

\* search looking at the cursor's successor on the top level
search_top(v) ==
  LET current == FindCursor(head, level, v)
  IN  IF current # None /\ heap[current].next[level] # None
      THEN heap[heap[current].next[level]].value = v
      ELSE FALSE

\* SkipList::search
search(v) ==
  LET current == FindCursor(head, level, v)
  IN  IF current # None /\ heap[current].next[0] # None
      THEN heap[heap[current].next[0]].value = v
      ELSE FALSE

\* the loop of random_level with the bound off by one
RECURSIVE RandomLevelLoop_offbyone(_, _)
RandomLevelLoop_offbyone(lvl, run) ==
  IF lvl < run /\ lvl < MAX_LEVEL
  THEN RandomLevelLoop_offbyone(lvl + 1, run)
  ELSE lvl

\* the loop of random_level on a stream whose first `run` draws are < P
RECURSIVE RandomLevelLoop(_, _)
RandomLevelLoop(lvl, run) ==
  IF lvl < run /\ lvl < MAX_LEVEL - 1
  THEN RandomLevelLoop(lvl + 1, run)
  ELSE lvl

random_level(run) == RandomLevelLoop(0, run)

Init ==
  /\ heap = (0 :> NodeNew(-1, MAX_LEVEL))
  /\ head = 0
  /\ level = 0
  /\ pc = "live"
  /\ op = [name |-> "new", arg |-> 0, ret |-> "ok"]
  /\ inserted = {}
  /\ nodeLevel = (0 :> MAX_LEVEL)
  /\ freed = (0 :> 0)
  /\ uaf = FALSE

\* step 3 resetting update to the head from level 0 up
RaiseUpdate_all(update, new_level) ==
  [i \in Levels |->
     IF new_level > level /\ i <= new_level
     THEN head ELSE update[i]]

\* step 3 with the exclusive range (self.level + 1)..new_level
RaiseUpdate_exclusive(update, new_level) ==
  [i \in Levels |->
     IF new_level > level /\ i > level /\ i < new_level
     THEN head ELSE update[i]]

\* step 3 of insert: `for i in (self.level + 1)..=new_level` sets update[i]
\* to the head; an index past the array panics
RaiseUpdate(update, new_level) ==
  [i \in Levels |->
     IF new_level > level /\ i > level /\ i <= new_level
     THEN head ELSE update[i]]

\* Link starting at level 1 when the node has more than one level
RECURSIVE Link_skip0(_, _, _, _, _)
Link_skip0(h, update, p, i, new_level) ==
  IF i > new_level THEN [heap |-> h, panic |-> FALSE]
  ELSE IF i = 0 /\ new_level > 0 THEN Link_skip0(h, update, p, 1, new_level)
  ELSE IF i \notin Levels \/ update[i] = None THEN [heap |-> h, panic |-> TRUE]
  ELSE LET predecessor == update[i]
           h1 == [h EXCEPT ![p].next[i] = h[predecessor].next[i]]
           h2 == [h1 EXCEPT ![predecessor].next[i] = p]
       IN  Link_skip0(h2, update, p, i + 1, new_level)

\* Link that overwrites the predecessor without keeping its old successor
RECURSIVE Link_nosucc(_, _, _, _, _)
Link_nosucc(h, update, p, i, new_level) ==
  IF i > new_level THEN [heap |-> h, panic |-> FALSE]
  ELSE IF i \notin Levels \/ update[i] = None THEN [heap |-> h, panic |-> TRUE]
  ELSE LET predecessor == update[i]
           h2 == [h EXCEPT ![predecessor].next[i] = p]
       IN  Link_nosucc(h2, update, p, i + 1, new_level)

\* Link splicing after the level-0 predecessor on every level
RECURSIVE Link_wrongpred(_, _, _, _, _)
Link_wrongpred(h, update, p, i, new_level) ==
  IF i > new_level THEN [heap |-> h, panic |-> FALSE]
  ELSE IF i \notin Levels \/ update[0] = None THEN [heap |-> h, panic |-> TRUE]
  ELSE LET predecessor == update[0]
           h1 == [h EXCEPT ![p].next[i] = h[predecessor].next[i]]
           h2 == [h1 EXCEPT ![predecessor].next[i] = p]
       IN  Link_wrongpred(h2, update, p, i + 1, new_level)

\* step 4 of insert: `for i in 0..=new_level` splices the node at address p
\* after update[i], level by level, reading the old successor before the
\* predecessor is overwritten
RECURSIVE Link(_, _, _, _, _)
Link(h, update, p, i, new_level) ==
  IF i > new_level THEN [heap |-> h, panic |-> FALSE]
  ELSE IF i \notin Levels \/ update[i] = None THEN [heap |-> h, panic |-> TRUE]
  ELSE LET predecessor == update[i]
           h1 == [h EXCEPT ![p].next[i] = h[predecessor].next[i]]
           h2 == [h1 EXCEPT ![predecessor].next[i] = p]
       IN  Link(h2, update, p, i + 1, new_level)

\* the duplicate check made on the predecessor itself
IsDuplicate_cursor(current, v) ==
  /\ current # None
  /\ heap[current].value = v

\* the duplicate check also comparing the predecessor's own value
IsDuplicate_orcursor(current, v) ==
  /\ current # None
  /\ \/ heap[current].value = v
     \/ /\ heap[current].next[0] # None
        /\ heap[heap[current].next[0]].value = v

\* the duplicate check of insert on the level-0 predecessor
IsDuplicate(current, v) ==
  /\ current # None
  /\ heap[current].next[0] # None
  /\ heap[heap[current].next[0]].value = v

\* the list level overwritten by every new node's level
RaiseLevel_always(new_level) == new_level

\* the list level after step 3
RaiseLevel(new_level) == IF new_level > level THEN new_level ELSE level

\* SkipList::insert as a function of its argument, the random stream and
\* whether Box::new obtains memory: the memory and the outcome it ends with
insert(v, run, allocOk) ==
  LET same == [heap |-> heap, level |-> level, nodeLevel |-> nodeLevel]
      update == FindUpdate(head, level, v, [i \in Levels |-> None])
  IN
  IF update[0] = None
  THEN same @@ [pc |-> "panicked", ret |-> "unwrap"]
  ELSE IF IsDuplicate(update[0], v)
  THEN same @@ [pc |-> "live", ret |-> "dup"]
  ELSE
    LET new_level == random_level(run)
        p == Cardinality(DOMAIN heap)
    IN
    IF new_level > level /\ new_level \notin Levels
    THEN same @@ [pc |-> "panicked", ret |-> "index"]
    ELSE IF ~allocOk
    THEN [heap |-> heap, level |-> RaiseLevel(new_level),
          nodeLevel |-> nodeLevel, pc |-> "aborted", ret |-> "oom"]
    ELSE
      LET linked == Link(heap @@ (p :> NodeNew(v, new_level + 1)),
                         RaiseUpdate(update, new_level), p, 0, new_level)
      IN  [heap |-> linked.heap, level |-> RaiseLevel(new_level),
           nodeLevel |-> nodeLevel @@ (p :> new_level + 1),
           pc |-> IF linked.panic THEN "panicked" ELSE "live",
           ret |-> IF linked.panic THEN "unwrap" ELSE "added"]

\* one call of insert: the random stream and the allocator's answer are
\* inputs of the call
InsertCall(v) ==
  /\ pc = "live"
  /\ \E r \in {insert(v, run, allocOk) : run \in Runs, allocOk \in BOOLEAN} :
         /\ heap' = r.heap
         /\ level' = r.level
         /\ nodeLevel' = r.nodeLevel
         /\ pc' = r.pc
         /\ op' = [name |-> "insert", arg |-> v, ret |-> r.ret]
         /\ inserted' = IF r.pc = "live" THEN inserted \cup {v} ELSE inserted
         /\ freed' = [n \in DOMAIN r.heap |-> 0]
  /\ UNCHANGED <<head, uaf>>

\* a call of insert on a list that has room for a node or holds v already
Insert(v) ==
  /\ \/ Cardinality(DOMAIN heap) <= MaxNodes
     \/ IsDuplicate(FindUpdate(head, level, v, [i \in Levels |-> None])[0], v)
  /\ InsertCall(v)

\* a search that counts self.level down while it descends
SearchOp_lower(v) ==
  /\ pc = "live"
  /\ op' = [name |-> "search", arg |-> 0,
            ret |-> IF search(v) THEN "true" ELSE "false"]
  /\ level' = 0
  /\ UNCHANGED <<heap, head, pc, inserted, nodeLevel, freed, uaf>>

SearchOp(v) ==
  /\ pc = "live"
  /\ op' = [name |-> "search", arg |-> 0,
            ret |-> IF search(v) THEN "true" ELSE "false"]
  /\ UNCHANGED <<heap, head, level, pc, inserted, nodeLevel, freed, uaf>>

\* the loop of drop releasing the node before reading its successor
RECURSIVE DropLoop_readafter(_, _, _)
DropLoop_readafter(current, fr, bad) ==
  IF current = None THEN [freed |-> fr, uaf |-> bad]
  ELSE LET fr2 == [fr EXCEPT ![current] = @ + 1]
           readFreed == fr2[current] > 0
           nxt == heap[current].next[0]
       IN  DropLoop_readafter(nxt, fr2, bad \/ readFreed)

\* the `while let` of drop: read the level-0 successor, release the node,
\* move to the successor
RECURSIVE DropLoop(_, _, _)
DropLoop(current, fr, bad) ==
  IF current = None THEN [freed |-> fr, uaf |-> bad]
  ELSE LET nxt == heap[current].next[0]
           readFreed == fr[current] > 0
           fr2 == [fr EXCEPT ![current] = @ + 1]
       IN  DropLoop(nxt, fr2, bad \/ readFreed)

\* Drop for SkipList
Drop ==
  /\ pc = "live"
  /\ \E r \in {DropLoop(head, freed, uaf)} :
         /\ freed' = r.freed
         /\ uaf' = r.uaf
  /\ pc' = "dropped"
  /\ op' = [name |-> "drop", arg |-> 0, ret |-> "ok"]
  /\ UNCHANGED <<heap, head, level, inserted, nodeLevel>>

Next ==
  \/ \E v \in Values : Insert(v)
  \/ \E v \in Keys : SearchOp(v)
  \/ Drop

Spec == Init /\ [][Next]_vars

\* ------------------------------------------------------------------- main
\* the values main inserts, in its order, and the values it searches
values == <<3, 6, 9, 2, 11, 1, 4>>

search_values == <<4, 5, 11, 0>>

\* the `for &val in &values` loop: the values are distinct, so the number
\* of values inserted is the position in the loop
MainInsert ==
  /\ Cardinality(inserted) < Len(values)
  /\ InsertCall(values[Cardinality(inserted) + 1])

\* the searches main makes once every value is inserted
MainSearch ==
  /\ Cardinality(inserted) = Len(values)
  /\ \E k \in 1 .. Len(search_values) : SearchOp(search_values[k])

\* skip_list goes out of scope at the end of main
MainDrop ==
  /\ Cardinality(inserted) = Len(values)
  /\ Drop

MainNext == MainInsert \/ MainSearch \/ MainDrop

SpecMain == Init /\ [][MainNext]_vars

\* ------------------------------------------------- observations of a state
\* the nodes met by following next[i] from n
RECURSIVE ChainFrom(_, _)
ChainFrom(n, i) ==
  IF n = None THEN <<>> ELSE <<n>> \o ChainFrom(heap[n].next[i], i)

\* the real nodes of level i, in the order the traversal meets them
Chain(i) == ChainFrom(heap[head].next[i], i)

ChainValues(i) == [k \in 1 .. Len(Chain(i)) |-> heap[Chain(i)[k]].value]

Range(s) == {s[k] : k \in 1 .. Len(s)}

StrictlyIncreasing(s) == \A k \in 1 .. (Len(s) - 1) : s[k] < s[k + 1]

RealNodes == DOMAIN heap \ {head}

\* ------------------------------------------------------------------ claims
\* C1: membership correctness.  In every live state, search of the value
\* the last insert call was given returns true, and search of every key
\* that was never inserted returns false; on the fresh list every search
\* returns false.
C1_Membership ==
  pc = "live" =>
    /\ op.name = "insert" => search(op.arg)
    /\ \A w \in Keys : w \notin inserted => ~search(w)
    /\ op.name = "new" => \A w \in Keys : ~search(w)

\* a list of three values whose last insert put a value between two others,
\* with one insertable value still absent
C1_Witness ==
  /\ pc = "live"
  /\ op.name = "insert" /\ op.ret = "added"
  /\ Len(Chain(0)) = 3
  /\ ChainValues(0)[2] = op.arg
  /\ level > 0
  /\ \E w \in Keys : w \notin inserted /\ w > ChainValues(0)[1]

\* C2: ordering.  In every live state the chain of every level 0..level is
\* strictly increasing in value, so level 0 holds no value twice.
C2_Ordering ==
  pc = "live" => \A i \in 0 .. level : StrictlyIncreasing(ChainValues(i))

\* three values inserted out of order, two of them also linked at level 1
C2_Witness ==
  /\ pc = "live"
  /\ Len(Chain(0)) = 3
  /\ Chain(0)[1] > Chain(0)[2]
  /\ level >= 1
  /\ Len(Chain(1)) >= 2

\* C3: level subset.  In every live state every node of the chain of a level
\* j <= level is on the chain of every lower level, and the level-0 chain
\* holds every real node.
C3_LevelSubset ==
  pc = "live" =>
    /\ \A i \in 0 .. level : \A j \in 0 .. level :
          i < j => Range(Chain(j)) \subseteq Range(Chain(i))
    /\ Range(Chain(0)) = RealNodes

\* three nodes, the middle one on level 0 only, the others on every level
C3_Witness ==
  /\ pc = "live"
  /\ Len(Chain(0)) = 3
  /\ level = MAX_LEVEL - 1
  /\ Chain(level) = <<Chain(0)[1], Chain(0)[3]>>

\* the sequence s with v put at its sorted position
InsertSorted(s, v) ==
  LET k == Cardinality({j \in 1 .. Len(s) : s[j] < v})
  IN  SubSeq(s, 1, k) \o <<v>> \o SubSeq(s, k + 1, Len(s))

\* C4: an insert of an absent value that returns makes the level-0 values
\* the previous level-0 values with the new value at its sorted position,
\* and in every live state the values of the level-0 chain are exactly the
\* values inserted.
C4_InsertAdds ==
  /\ [](pc = "live" => Range(ChainValues(0)) = inserted)
  /\ [][(op'.name = "insert" /\ pc' = "live"
           /\ op'.arg \notin Range(ChainValues(0)))
         => /\ ChainValues(0)' = InsertSorted(ChainValues(0), op'.arg)
            /\ Len(ChainValues(0)') = Len(ChainValues(0)) + 1
            /\ Range(ChainValues(0)) \subseteq Range(ChainValues(0)')]_vars

\* the last insert put a value in front of two older ones
C4_Witness ==
  /\ pc = "live"
  /\ op.name = "insert" /\ op.ret = "added"
  /\ Len(Chain(0)) = 3
  /\ ChainValues(0)[1] = op.arg
  /\ Chain(0)[1] = 3

\* C5: an insert of a value that is already on the level-0 chain returns at
\* the duplicate check and changes neither the memory (no node allocated, no
\* link rewritten), nor the level, nor the head.
C5_DuplicateNoOp ==
  [][(op'.name = "insert" /\ op'.arg \in Range(ChainValues(0)))
     => /\ op'.ret = "dup"
        /\ pc' = "live"
        /\ UNCHANGED <<heap, head, level, nodeLevel, inserted>>]_vars

\* the last insert was given the maximum of a three-value list
C5_Witness ==
  /\ pc = "live"
  /\ op.name = "insert" /\ op.ret = "dup"
  /\ Len(Chain(0)) = 3
  /\ ChainValues(0)[3] = op.arg

\* C6: level starts at 0 and no step decreases it.
C6_LevelMonotonic ==
  /\ level = 0
  /\ [][level' >= level]_vars

\* the last insert added a node lower than the list level
C6_Witness ==
  /\ pc = "live"
  /\ op.name = "insert" /\ op.ret = "added"
  /\ level > 0
  /\ nodeLevel[Cardinality(DOMAIN heap) - 1] - 1 < level

\* C7: a search call changes neither the head, nor the level, nor the set of
\* nodes, nor any node's value or next slot.
C7_SearchPure ==
  [][op'.name = "search" => UNCHANGED <<heap, head, level>>]_vars

\* the last call was a successful search on a multi-level list
C7_Witness ==
  /\ pc = "live"
  /\ op.name = "search" /\ op.ret = "true"
  /\ Len(Chain(0)) = 3
  /\ level > 0

\* C8: when drop has finished, the head and every real node have been
\* released exactly once and no node was read after its release.
C8_Teardown ==
  pc = "dropped" =>
    /\ \A n \in DOMAIN heap : freed[n] = 1
    /\ ~uaf

\* a dropped list of three real nodes on several levels
C8_Witness ==
  /\ pc = "dropped"
  /\ Cardinality(RealNodes) = 3
  /\ level > 0
  /\ Len(Chain(level)) < 3

\* C9: an insert whose allocation fails has changed neither the level nor
\* any node when it fails.
C9_NoPartialFailure ==
  [][pc' = "aborted" => UNCHANGED <<heap, level>>]_vars

\* C10: random_level returns a level in 0 .. MAX_LEVEL-1 for every stream of
\* draws, also one whose draws all succeed; every real node's level and the
\* list level are below MAX_LEVEL.
C10_LevelBound ==
  /\ \A run \in Runs : random_level(run) \in 0 .. (MAX_LEVEL - 1)
  /\ \A n \in RealNodes : nodeLevel[n] - 1 \in 0 .. (MAX_LEVEL - 1)
  /\ level \in 0 .. (MAX_LEVEL - 1)

\* a node was added from a stream whose draws all succeed
C10_Witness ==
  /\ pc = "live"
  /\ op.name = "insert" /\ op.ret = "added"
  /\ nodeLevel[Cardinality(DOMAIN heap) - 1] = MAX_LEVEL
  /\ level = MAX_LEVEL - 1
  /\ heap[head].next[MAX_LEVEL - 1] = Cardinality(DOMAIN heap) - 1

\* C11: in main, once 3, 6, 9, 2, 11, 1, 4 are inserted in that order, with
\* any drawn levels, search finds 4 and 11, does not find 5 and 0, and the
\* level-0 traversal is 1, 2, 3, 4, 6, 9, 11.
C11_Scenario ==
  (pc = "live" /\ Cardinality(inserted) = Len(values)) =>
    /\ search(4) /\ ~search(5) /\ search(11) /\ ~search(0)
    /\ ChainValues(0) = <<1, 2, 3, 4, 6, 9, 11>>

\* main has searched a list whose nodes were drawn different levels
C11_Witness ==
  /\ pc = "live"
  /\ inserted = Range(values)
  /\ op.name = "search" /\ op.ret = "false"
  /\ Len(Chain(level)) = 3
  /\ level > 0

\* the update array of insert(v) when its descending traversal is over
UpdateOf(v) == FindUpdate(head, level, v, [i \in Levels |-> None])

\* C12: in every live state and for every v, after the traversal of
\* insert(v) each update[i], i in 0..level, is the head or a node of the
\* level-i chain with a value below v, and its next[i] is empty or has a
\* value >= v; on an empty list or for a v not above the first value every
\* update[i] is the head; the cursor of search(v) ends at update[0].
C12_Predecessors ==
  pc = "live" =>
    \A v \in Keys : \A update \in {UpdateOf(v)} :
      /\ \A i \in 0 .. level :
            /\ \/ update[i] = head
               \/ /\ update[i] \in Range(Chain(i))
                  /\ heap[update[i]].value < v
            /\ \/ heap[update[i]].next[i] = None
               \/ heap[heap[update[i]].next[i]].value >= v
      /\ (Len(Chain(0)) = 0 \/ v <= ChainValues(0)[1])
            => \A i \in 0 .. level : update[i] = head
      /\ FindCursor(head, level, v) = update[0]

\* the traversal for some v stops at a real node on the top level and at a
\* later node on level 0
C12_Witness ==
  /\ pc = "live"
  /\ level > 0
  /\ \E v \in Keys :
        /\ UpdateOf(v)[level] # head
        /\ UpdateOf(v)[0] # UpdateOf(v)[level]
        /\ heap[UpdateOf(v)[0]].next[0] # None

\* C13: an insert that adds a node p of drawn level L rewrites, among the
\* nodes that existed, exactly the slot next[i] of update[i] for each i in
\* 0..L, which becomes p; p's next[i] is what that slot held before for i
\* in 0..L and empty above; no other slot and no value changes.
C13_SpliceFrame ==
  [][(op'.name = "insert" /\ op'.ret = "added") =>
       \A p \in {Cardinality(DOMAIN heap)} :
       \A L \in {nodeLevel'[p] - 1} :
       \A update \in {RaiseUpdate(UpdateOf(op'.arg), L)} :
         /\ DOMAIN heap' = DOMAIN heap \cup {p}
         /\ heap'[p].value = op'.arg
         /\ \A i \in Levels :
               heap'[p].next[i] =
                 IF i <= L THEN heap[update[i]].next[i] ELSE None
         /\ \A n \in DOMAIN heap :
               /\ heap'[n].value = heap[n].value
               /\ \A i \in Levels :
                     heap'[n].next[i] =
                       IF i <= L /\ n = update[i] THEN p ELSE heap[n].next[i]]_vars

\* the last insert spliced a node of every level between two nodes, the
\* first of them on level 0 only
C13_Witness ==
  /\ pc = "live"
  /\ op.name = "insert" /\ op.ret = "added"
  /\ Len(Chain(0)) = 3
  /\ Chain(0)[2] = 3
  /\ nodeLevel[3] = MAX_LEVEL
  /\ nodeLevel[Chain(0)[1]] = 1
  /\ Len(Chain(1)) = 2

\* C14: in every live state a real node's next[i] is empty for every i above
\* its assigned level, and every non-empty next[i], of the head or of a real
\* node, refers to an allocated, unreleased real node whose assigned level
\* is at least i.
C14_UnusedSlotsEmpty ==
  pc = "live" =>
    /\ \A n \in RealNodes : \A i \in Levels :
          i > nodeLevel[n] - 1 => heap[n].next[i] = None
    /\ \A n \in DOMAIN heap : \A i \in Levels :
          heap[n].next[i] # None =>
            /\ heap[n].next[i] \in RealNodes
            /\ freed[heap[n].next[i]] = 0
            /\ nodeLevel[heap[n].next[i]] - 1 >= i

\* a level-0 node stands between two nodes that are linked on every level
C14_Witness ==
  /\ pc = "live"
  /\ Len(Chain(0)) = 3
  /\ nodeLevel[Chain(0)[2]] = 1
  /\ heap[Chain(0)[1]].next[MAX_LEVEL - 1] = Chain(0)[3]
  /\ heap[Chain(0)[2]].next[0] = Chain(0)[3]

\* the highest assigned level among the real nodes
MaxNodeLevel ==
  CHOOSE m \in {nodeLevel[n] - 1 : n \in RealNodes} :
    \A n \in RealNodes : nodeLevel[n] - 1 <= m

\* C15: in every state level is 0 on an empty list and the highest assigned
\* level of a real node otherwise; the head's next[i] is empty for every i
\* above level and non-empty at level when the list is non-empty.
C15_LevelIsHighest ==
  /\ level = IF RealNodes = {} THEN 0 ELSE MaxNodeLevel
  /\ \A i \in Levels : i > level => heap[head].next[i] = None
  /\ RealNodes # {} => heap[head].next[level] # None

\* C16 as claimed: right after new() the head's next[i] is non-empty at
\* every level.
C16_HeadPopulated ==
  op.name = "new" => \A i \in Levels : heap[head].next[i] # None

\* C16 amended: right after new() the head is the only node, it has a next
\* slot for every level 0 .. MAX_LEVEL-1, and each of these slots is empty.
C16_HeadSlotsEmpty ==
  op.name = "new" =>
    /\ DOMAIN heap = {head}
    /\ DOMAIN heap[head].next = 0 .. (MAX_LEVEL - 1)
    /\ \A i \in Levels : heap[head].next[i] = None

\* the list as new() returns it
C16_Witness ==
  /\ op.name = "new"
  /\ pc = "live"
  /\ level = 0
  /\ heap[head].value = -1

\* C17: the head's value -1 is no element.  In every live state search(-1)
\* is true exactly when -1 was inserted, and then -1 is on the strictly
\* increasing level-0 chain, which never contains the head; an insert(-1)
\* on a list -1 was never inserted into allocates a real node of value -1.
C17_DummyNotElement ==
  /\ [](pc = "live" =>
          /\ search(-1) <=> (-1 \in inserted)
          /\ head \notin Range(Chain(0))
          /\ (-1 \in inserted) =>
                /\ -1 \in Range(ChainValues(0))
                /\ StrictlyIncreasing(ChainValues(0)))
  /\ [][(op'.name = "insert" /\ op'.arg = -1 /\ pc' = "live"
           /\ -1 \notin inserted)
         => /\ op'.ret = "added"
            /\ DOMAIN heap' = DOMAIN heap \cup {Cardinality(DOMAIN heap)}
            /\ heap'[Cardinality(DOMAIN heap)].value = -1
            /\ Cardinality(DOMAIN heap) # head]_vars

\* -1 was inserted last, between -2 and 0
C17_Witness ==
  /\ pc = "live"
  /\ op = [name |-> "insert", arg |-> -1, ret |-> "added"]
  /\ ChainValues(0) = <<-2, -1, 0>>
  /\ search(-1)

\* C18: membership is permanent.  In every live state search finds every
\* value inserted so far and no node has been released; no step that leaves
\* the list live forgets an inserted value, removes a node from the memory,
\* changes a node's value or takes a node off the level-0 chain.
C18_MembershipPermanent ==
  /\ [](pc = "live" =>
          /\ \A v \in inserted : search(v)
          /\ \A n \in DOMAIN heap : freed[n] = 0)
  /\ [][pc' = "live" =>
          /\ inserted \subseteq inserted'
          /\ DOMAIN heap \subseteq DOMAIN heap'
          /\ \A n \in DOMAIN heap : heap'[n].value = heap[n].value
          /\ Range(Chain(0)) \subseteq Range(Chain(0))']_vars

\* two later inserts went around the first node, one of them on every level
C18_Witness ==
  /\ pc = "live"
  /\ op.name = "insert" /\ op.ret = "added"
  /\ Len(Chain(0)) = 3
  /\ Chain(0)[2] = 1
  /\ nodeLevel[1] = 1
  /\ level > 0
  /\ search(heap[1].value)

\* the elements of a set of integers in increasing order
RECURSIVE SortedSeq(_)
SortedSeq(S) ==
  IF S = {} THEN <<>>
  ELSE LET m == CHOOSE x \in S : \A y \in S : x <= y
       IN  <<m>> \o SortedSeq(S \ {m})

\* C19: what a caller can observe is a function of the values inserted
\* alone.  In every live state, whatever levels were drawn, the level-0
\* values are the inserted values in increasing order and search(v) is true
\* exactly for the inserted values; hence two lists built by the same calls
\* with different draws show the same level-0 sequence and search results.
C19_LevelIndependent ==
  pc = "live" =>
    /\ ChainValues(0) = SortedSeq(inserted)
    /\ \A v \in Keys : search(v) <=> (v \in inserted)

\* three nodes with different drawn levels, the low ones behind a high one
C19_Witness ==
  /\ pc = "live"
  /\ Len(Chain(0)) = 3
  /\ Len(Chain(level)) = 1
  /\ level = MAX_LEVEL - 1
  /\ Chain(0)[1] = Chain(level)[1]
  /\ inserted = {-2, -1, 0}

\* C20: insert never panics.  No state is reached by a panic, and in every
\* live state, for every value and every drawn level, update[0] is set when
\* the duplicate check unwraps it, the drawn level is below MAX_LEVEL, and
\* for every i in 0..new_level the update[i] the splice loop unwraps is the
\* head or a node of the level-i chain, the head above the old list level.
C20_NoEmptyUnwrap ==
  /\ pc # "panicked"
  /\ pc = "live" =>
       \A v \in Values : \A update \in {UpdateOf(v)} :
         /\ update[0] # None
         /\ \A run \in Runs : \A new_level \in {random_level(run)} :
               /\ new_level < MAX_LEVEL
               /\ \A raised \in {RaiseUpdate(update, new_level)} :
                   \A i \in 0 .. new_level :
                     /\ i \in Levels
                     /\ raised[i] # None
                     /\ raised[i] = head \/ raised[i] \in Range(Chain(i))
                     /\ i > level => raised[i] = head

\* a node of every level was added behind a node of level 0 only: the
\* levels above the old list level were spliced after the head
C20_Witness ==
  /\ pc = "live"
  /\ op.name = "insert" /\ op.ret = "added"
  /\ Chain(0) = <<1, 2>>
  /\ nodeLevel[1] = 1
  /\ nodeLevel[2] = MAX_LEVEL
  /\ heap[head].next[MAX_LEVEL - 1] = 2
====
